---- MODULE Spec2Model ----
(***************************************************************************)
(* Parser combinator engine of src/monadics/parser-combinator.ts.          *)
(*                                                                         *)
(* A JavaScript string is a sequence of one-character strings.  A cursor   *)
(* (ParsingState) is the input `raw` and the record ctx of its three       *)
(* mutable fields.  A Parser is a syntax tree [op, arg, n, kids]; parse    *)
(* evaluates it on a cursor state exactly as the closure built by the      *)
(* corresponding static method does, and yields the Result together with   *)
(* the cursor state the call leaves behind.                                *)
(*                                                                         *)
(* Besides "success" and "failure" a call can end in two other ways:       *)
(*   "throw"   - a user callback (predicate, transform) threw; the error   *)
(*               unwinds the stack, running the disposers of the `using`   *)
(*               declarations it passes;                                   *)
(*   "diverge" - a `while (true)` loop re-enters an iteration in the very  *)
(*               cursor state the previous iteration started in; parsers   *)
(*               are functions of the cursor state, so no later iteration  *)
(*               differs and the call never returns.                       *)
(***************************************************************************)
EXTENDS Integers, Sequences, FiniteSets, TLC

VARIABLES raw, ctx, parser, op, entry, result, lastIndex, other, trx

vars == <<raw, ctx, parser, op, entry, result, lastIndex, other, trx>>

(* ------------------------------ bounds --------------------------------- *)

\* longest input text
MaxLen == 3

\* how far past the end of the input the direct cursor reads may be driven
MaxOver == 1

\* largest n of a direct nextChars(n) call
MaxN == 2

\* largest count of exactly(parser, count)
MaxCount == 2

Chars == {"a", "b", "\n"}

Inputs == UNION {[1..n -> Chars] : n \in 0..MaxLen}

(* ------------------------------ values --------------------------------- *)

\* raw[currentPosition] past the end of the string
undefined == "undefined"

\* what `sub += undefined` appends to a string
UndefinedText == <<"u", "n", "d", "e", "f", "i", "n", "e", "d">>

\* result data: tagged so that values of different shapes compare unequal
Null == <<"null">>
Str(s) == <<"str", s>>
List(xs) == <<"list", xs>>
Mapped(v) == <<"mapped", v>>

EXPECTED_LITERAL == "EXPECTED_LITERAL"
EXPECTED_REGEX == "EXPECTED_REGEX"
UNEXPECTED_EOF == "UNEXPECTED_EOF"
ALL_PARSERS_FAILED == "ALL_PARSERS_FAILED"

ParserErrorCode == {EXPECTED_LITERAL, EXPECTED_REGEX, UNEXPECTED_EOF, ALL_PARSERS_FAILED}

(* ------------------------------ cursor --------------------------------- *)

State(p, l, c) == [currentPosition |-> p, currentLine |-> l, currentColumn |-> c]

\* new ParsingState(raw): position 0, line 1, column 1
InitialState == State(0, 1, 1)

\* raw[i] for a 0-based index
CharAt(i) == IF i < Len(raw) THEN raw[i + 1] ELSE undefined

copy(st) == State(st.currentPosition, st.currentLine, st.currentColumn)

\* rollback that restores the position only
rollback_position_only(st, state) ==
  [st EXCEPT !.currentPosition = state.currentPosition]

\* ParsingState.rollback: line, column and position are taken from `state`

rollback(st, state) ==
  [st EXCEPT !.currentLine = state.currentLine,
             !.currentColumn = state.currentColumn,
             !.currentPosition = state.currentPosition]

meta(initalState, st) ==
  [start |-> initalState.currentPosition,
   end |-> st.currentPosition,
   endColumn |-> st.currentColumn,
   endLine |-> st.currentLine,
   startColumn |-> initalState.currentColumn,
   startLine |-> initalState.currentLine]

\* nextChar: the character read and the cursor state afterwards

nextChar(st) ==
  LET current == CharAt(st.currentPosition)
  IN  [ret |-> current,
       st |-> IF current = "\n"
              THEN State(st.currentPosition + 1, st.currentLine + 1, 1)
              ELSE State(st.currentPosition + 1, st.currentLine, st.currentColumn + 1)]

RECURSIVE nextCharsLoop(_, _, _)
nextCharsLoop(st, n, sub) ==
  IF n = 0 THEN [ret |-> sub, st |-> st]
  ELSE LET c == nextChar(st)
       IN  nextCharsLoop(c.st, n - 1,
                         sub \o (IF c.ret = undefined THEN UndefinedText ELSE <<c.ret>>))

nextChars(st, n) == nextCharsLoop(st, n, <<>>)

\* trx.peekRemainder(): raw.slice(currentPosition)
peekRemainder(st) == SubSeq(raw, st.currentPosition + 1, Len(raw))

(* ------------------------------ results -------------------------------- *)

success(data, meta_info) ==
  [type |-> "success", data |-> data, code |-> "", error_message |-> <<>>, meta |-> meta_info]

failure(code, error_message, meta_info) ==
  [type |-> "failure", data |-> Null, code |-> code, error_message |-> error_message,
   meta |-> meta_info]

\* a call that did not return a Result
Abrupt(kind, st) ==
  [type |-> kind, data |-> Null, code |-> "", error_message |-> <<>>, meta |-> meta(st, st)]

\* the two outcomes that are no Result
Abrupts == {"throw", "diverge"}

IsAbrupt(r) == r.type \in Abrupts

\* outcome of a call: the Result and the cursor state left behind
Out(res, st) == [res |-> res, st |-> st]

(* ---------------------------- transaction ------------------------------ *)
(* A transaction is the cursor plus its private `initalState`.  In         *)
(* trx.rollback and trx.commit the guard `if (!trx.is_dirty) return` tests *)
(* the function object, which is truthy, so neither ever returns early.    *)

is_dirty(st, initalState) == st.currentPosition # initalState.currentPosition

\* trx.success(match): the Result; the commit moves initalState to st
trx_success(match, st, initalState) == Out(success(match, meta(initalState, st)), st)

\* trx.failure(code, message): the Result, then rollback to initalState
trx_failure(code, error_message, st, initalState) ==
  Out(failure(code, error_message, meta(initalState, st)), rollback(st, initalState))

\* trx.rollback(): the cursor takes initalState
trx_rollback(st, initalState) == rollback(st, initalState)

\* a commit that leaves initalState as it is
trx_commit_kept(st, initalState) == initalState

\* trx.commit(): the new initalState is a copy of the cursor
trx_commit(st, initalState) == copy(st)

\* a disposer with the two modes exchanged
dispose_swapped(mode, st, initalState) ==
  IF mode = "auto-rollback" THEN st ELSE rollback(st, initalState)

\* [Symbol.dispose] of a transaction nothing was committed on
dispose(mode, st, initalState) ==
  IF mode = "auto-rollback" THEN rollback(st, initalState) ELSE st

(* ------------------------------ parsers -------------------------------- *)
(* Syntax tree of a Parser value: op names the static method that built    *)
(* it, arg its string argument (expected text, pattern or the name of a    *)
(* user callback), n its numeric argument, kids the parsers it was given.  *)

Node(o, arg, n, kids) == [op |-> o, arg |-> arg, n |-> n, kids |-> kids]

Utf8(c) == Node("utf8", <<c>>, 0, <<>>)
Literal(text) == Node("literal", text, 0, <<>>)
LiteralCI(text) == Node("literal", text, 1, <<>>)
Regex(pattern) == Node("regex", <<pattern>>, 0, <<>>)
TakeWhile(f) == Node("takeWhile", <<f>>, 0, <<>>)
TakeUntil(f) == Node("takeUntil", <<f>>, 0, <<>>)
AnyP == Node("any", <<>>, 0, <<>>)
NextCharP == Node("nextChar", <<>>, 0, <<>>)
Eof == Node("eof", <<>>, 0, <<>>)
Map(p, f) == Node("map", <<f>>, 0, <<p>>)
Optional(p) == Node("optional", <<>>, 0, <<p>>)
Many(p) == Node("many", <<>>, 0, <<p>>)
AtLeastOnce(p) == Node("atLeastOnce", <<>>, 0, <<p>>)
Exactly(p, count) == Node("exactly", <<>>, count, <<p>>)
Sequence(ps) == Node("sequence", <<>>, 0, ps)
Or(ps) == Node("or", <<>>, 0, ps)
SepBy(item, delimiter) == Node("sepBy", <<>>, 0, <<item, delimiter>>)
Peek(p) == Node("peek", <<>>, 0, <<p>>)
SkipUntilRecovery(base, recover) == Node("skipUntilRecovery", <<>>, 0, <<base, recover>>)
Recursive(parserThunk) == Node("recursive", <<parserThunk>>, 0, <<>>)

\* the parsers the class builds for numbers
digits == Regex("^\\d+")
unsinged_integer == Map(Regex("^[1-9][0-9]*"), "parseInt")
integer ==
  Map(Sequence(<<Optional(Or(<<Utf8("+"), Utf8("-")>>)), unsinged_integer>>), "parseIntJoined")
float ==
  Map(Or(<<Sequence(<<integer, Utf8("."), Optional(digits)>>),
           Sequence(<<Optional(integer), Utf8("."), digits>>)>>), "parseIntJoined")
number == Or(<<float, integer>>)

(* The arithmetic grammar of parser-combinator.test.ts.  A thunk is named  *)
(* by a string; thunk(name) is the parser it returns.                      *)
math_expression == Recursive("math_expression")
factor == Recursive("factor")
sign == Or(<<Utf8("+"), Utf8("-")>>)
mul_div_sign == Or(<<Utf8("*"), Utf8("/")>>)
term ==
  Map(Sequence(<<factor, Many(Map(Sequence(<<mul_div_sign, factor>>), "opval"))>>), "fold")

thunk(name) ==
  CASE name = "factor" ->
         Or(<<Map(Sequence(<<Utf8("("), math_expression, Utf8(")")>>), "second"), number>>)
    [] name = "math_expression" ->
         Map(Sequence(<<term, Many(Map(Sequence(<<sign, term>>), "opval"))>>), "fold")

(* User callbacks.  A predicate answers "true", "false" or "throw".        *)
predicate(f, char) ==
  CASE f = "isA" -> IF char = "a" THEN "true" ELSE "false"
    [] f = "isNewline" -> IF char = "\n" THEN "true" ELSE "false"
    [] f = "throwOnB" -> IF char = "b" THEN "throw"
                         ELSE IF char = "a" THEN "true" ELSE "false"

\* number of leading characters of s that are in set S
RECURSIVE Run(_, _)
Run(s, S) == IF s # <<>> /\ Head(s) \in S THEN 1 + Run(Tail(s), S) ELSE 0

(* Numbers.  A JavaScript number is kept as a fraction in lowest terms     *)
(* with a positive denominator; NaN stands for every value that is not     *)
(* finite (x / 0 and what is computed from it).                            *)
NaN == <<"nan">>

Abs(n) == IF n < 0 THEN -n ELSE n

RECURSIVE GCD(_, _)
GCD(a, b) == IF b = 0 THEN a ELSE GCD(b, a % b)

Num(n, d) ==
  IF d = 0 THEN NaN
  ELSE LET g == GCD(Abs(n), Abs(d))
           flip == IF d < 0 THEN -1 ELSE 1
       IN  <<"num", flip * (n \div g), flip * (d \div g)>>

IsNum(v) == v # <<>> /\ v[1] = "num"

\* the operators + - * / on two numbers
Arith(operator, a, b) ==
  IF ~IsNum(a) \/ ~IsNum(b) THEN NaN
  ELSE CASE operator = "+" -> Num(a[2] * b[3] + b[2] * a[3], a[3] * b[3])
         [] operator = "-" -> Num(a[2] * b[3] - b[2] * a[3], a[3] * b[3])
         [] operator = "*" -> Num(a[2] * b[2], a[3] * b[3])
         [] operator = "/" -> Num(a[2] * b[3], a[3] * b[2])

DigitChars == <<"0", "1", "2", "3", "4", "5", "6", "7", "8", "9">>

Digits == {DigitChars[k] : k \in 1..10}

DigitValue(c) == (CHOOSE k \in 1..10 : DigitChars[k] = c) - 1

\* the value of a run of digits
RECURSIVE DigitsValue(_)
DigitsValue(s) ==
  IF s = <<>> THEN 0 ELSE 10 * DigitsValue(SubSeq(s, 1, Len(s) - 1)) + DigitValue(s[Len(s)])

\* Number.prototype.toString of an integer
RECURSIVE numberToString(_)
numberToString(n) ==
  IF n < 0 THEN <<"-">> \o numberToString(-n)
  ELSE IF n < 10 THEN <<DigitChars[n + 1]>>
  ELSE numberToString(n \div 10) \o <<DigitChars[(n % 10) + 1]>>

\* what Array.prototype.join writes for one element
JoinedText(v) ==
  CASE v[1] = "str" -> v[2]
    [] v[1] = "num" -> numberToString(v[2])
    [] OTHER -> <<>>

RECURSIVE join(_)
join(xs) == IF xs = <<>> THEN <<>> ELSE JoinedText(Head(xs)) \o join(Tail(xs))

\* isDefined: neither undefined nor null
filterDefined(xs) == SelectSeq(xs, LAMBDA v : v # Null)

(* parseInt(text): an optional sign and the digits behind it, up to the    *)
(* first character that is no digit; NaN without a digit.                  *)
parseInt(text) ==
  LET signed == text # <<>> /\ Head(text) \in {"+", "-"}
      body == IF signed THEN Tail(text) ELSE text
      k == Run(body, Digits)
      value == DigitsValue(SubSeq(body, 1, k))
  IN  IF k = 0 THEN NaN
      ELSE IF signed /\ Head(text) = "-" THEN Num(-value, 1) ELSE Num(value, 1)

\* the loop of the term and expression transforms over the {op, val} objects
RECURSIVE Fold(_, _)
Fold(acc, rest) ==
  IF rest = <<>> THEN acc
  ELSE Fold(Arith(Head(rest)[2][2][1], acc, Head(rest)[3]), Tail(rest))

\* a transform either throws or maps the value
transformThrows(f, v) ==
  CASE f = "wrap" -> FALSE
    [] f = "throw" -> TRUE
    [] f = "throwOnB" -> v = Str(<<"b">>)
    [] OTHER -> FALSE

(* The transforms handed to map: "parseInt" is (d) => parseInt(d),         *)
(* "parseIntJoined" is (r) => parseInt(r.filter(isDefined).join("")),      *)
(* "second" is ([, expr]) => expr, "opval" is ([op, val]) => ({op, val}),  *)
(* "fold" is the loop of term and expression; every other one wraps.       *)
transform(f, v) ==
  CASE f = "parseInt" -> parseInt(v[2])
    [] f = "parseIntJoined" -> parseInt(join(filterDefined(v[2])))
    [] f = "second" -> v[2][2]
    [] f = "opval" -> <<"opval", v[2][1], v[2][2]>>
    [] f = "fold" -> Fold(v[2][1], v[2][2][2])
    [] OTHER -> Mapped(v)

\* String.prototype.toLowerCase on one character of the alphabet
toLowerCase(c) == IF c = "A" THEN "a" ELSE IF c = "B" THEN "b" ELSE c

lower(s) == [i \in 1..Len(s) |-> toLowerCase(s[i])]

\* a match of `length` characters found `index` characters into the string
Found(index, length) == [index |-> index, length |-> length]

\* String.prototype.match returned null
NoMatch == Found(0, -1)

\* index of the first character of s that is in S, Len(s) if there is none
RECURSIVE IndexOf(_, _)
IndexOf(s, S) == IF s = <<>> \/ Head(s) \in S THEN 0 ELSE 1 + IndexOf(Tail(s), S)

(* String.prototype.match for the patterns in use: where the leftmost      *)
(* match starts and how long it is.  Every pattern's source starts with ^, *)
(* which is all the constructor asks for.  In /^a|b/ the ^ belongs to the  *)
(* first alternative only; with the m flag ^ also matches behind a line    *)
(* break; with the y flag the search starts at the lastIndex the RegExp    *)
(* object holds, where ^ cannot match unless lastIndex is 0.               *)
matchAt(pattern, s) ==
  CASE pattern = "^a+" -> IF Run(s, {"a"}) > 0 THEN Found(0, Run(s, {"a"})) ELSE NoMatch
    [] pattern = "^a*" -> Found(0, Run(s, {"a"}))
    [] pattern = "^\\s" -> IF s # <<>> /\ Head(s) = "\n" THEN Found(0, 1) ELSE NoMatch
    [] pattern = "^a|b" ->
         IF s # <<>> /\ Head(s) = "a" THEN Found(0, 1)
         ELSE IF IndexOf(s, {"b"}) < Len(s) THEN Found(IndexOf(s, {"b"}), 1) ELSE NoMatch
    [] pattern = "^a/m" ->
         LET starts == {i \in 0..(Len(s) - 1) : s[i + 1] = "a" /\ (i = 0 \/ s[i] = "\n")}
         IN  IF starts = {} THEN NoMatch
             ELSE Found(CHOOSE i \in starts : \A j \in starts : i <= j, 1)
    [] pattern = "^\\d+" -> IF Run(s, Digits) > 0 THEN Found(0, Run(s, Digits)) ELSE NoMatch
    [] pattern = "^[1-9][0-9]*" ->
         IF s # <<>> /\ Head(s) \in Digits \ {"0"} THEN Found(0, Run(s, Digits)) ELSE NoMatch
    [] pattern = "^a/y" ->
         IF lastIndex = 0 /\ s # <<>> /\ Head(s) = "a" THEN Found(0, 1) ELSE NoMatch

\* match[0].length, or -1 when match returns null
match(pattern, s) == matchAt(pattern, s).length

\* the patterns whose RegExp object keeps a lastIndex between calls of match
Sticky == {"^a/y"}

(* pattern.lastIndex after String.prototype.match: behind the match, or 0  *)
(* when there was none; RegExps without the y flag keep it at 0.           *)
lastIndexAfter(pattern, s) ==
  IF pattern \in Sticky /\ matchAt(pattern, s).length >= 0
  THEN lastIndex + matchAt(pattern, s).length
  ELSE 0

(* --------------------------- leaf parsers ------------------------------ *)
(* Each opens `using trx = ctx.stateTransaction()` (auto-rollback); after  *)
(* trx.success the commit has moved initalState to the cursor, after       *)
(* trx.failure the cursor is on initalState, so the disposer's rollback    *)
(* changes nothing on either return path.                                  *)

\* without the test for end of input
utf8_without_eof(expected, st) ==
  LET next_char == nextChar(st)
  IN  IF next_char.ret # expected
      THEN trx_failure(EXPECTED_LITERAL, <<"Expected character: ", expected>>, next_char.st, st)
      ELSE trx_success(Str(<<expected>>), next_char.st, st)

utf8(expected, st) ==
  LET next_char == nextChar(st)
  IN  IF next_char.ret = undefined /\ expected # ""
      THEN trx_failure(UNEXPECTED_EOF, <<"Unexpected EOF">>, next_char.st, st)
      ELSE IF next_char.ret # expected
      THEN trx_failure(EXPECTED_LITERAL, <<"Expected character: ", expected>>, next_char.st, st)
      ELSE trx_success(Str(<<expected>>), next_char.st, st)

regex(pattern, st) ==
  LET m == match(pattern, peekRemainder(st))
  IN  IF m < 0
      THEN trx_failure(EXPECTED_REGEX, <<"Expected to match regex: ", pattern>>, st, st)
      ELSE LET read == nextChars(st, m)
           IN  trx_success(Str(read.ret), read.st, st)

\* answering with what was read instead of `expected`
literal_as_read(expected, case_insensitive, st) ==
  LET read == nextChars(st, Len(expected))
      prepared_input == IF case_insensitive THEN lower(read.ret) ELSE read.ret
      prepared_expected == IF case_insensitive THEN lower(expected) ELSE expected
  IN  IF prepared_input = prepared_expected
      THEN trx_success(Str(read.ret), read.st, st)
      ELSE trx_failure(EXPECTED_LITERAL, <<"Expected literal: \"">> \o expected \o <<"\"">>,
                       read.st, st)

literal(expected, case_insensitive, st) ==
  LET read == nextChars(st, Len(expected))
      prepared_input == IF case_insensitive THEN lower(read.ret) ELSE read.ret
      prepared_expected == IF case_insensitive THEN lower(expected) ELSE expected
  IN  IF prepared_input = prepared_expected
      THEN trx_success(Str(expected), read.st, st)
      ELSE trx_failure(EXPECTED_LITERAL, <<"Expected literal: \"">> \o expected \o <<"\"">>,
                       read.st, st)

eof(st) ==
  IF CharAt(st.currentPosition) # undefined
  THEN trx_failure(EXPECTED_LITERAL, <<"Expected EOF">>, st, st)
  ELSE trx_success(Null, st, st)

\* Parser.nextChar()
nextCharParser(st) ==
  LET char == nextChar(st)
  IN  IF char.ret = undefined
      THEN trx_failure(UNEXPECTED_EOF, <<"Unexpected EOF">>, char.st, st)
      ELSE trx_success(Str(<<char.ret>>), char.st, st)

\* Parser.any
any(st) ==
  LET next == nextChar(st)
  IN  IF next.ret = undefined
      THEN trx_failure(UNEXPECTED_EOF, <<"Unexpected eof">>, next.st, st)
      ELSE trx_success(Str(<<next.ret>>), next.st, st)

(* takeWhile / takeUntil: `stop` is the predicate answer that ends the     *)
(* loop.  A throwing predicate leaves through the disposer, which rolls    *)
(* the cursor back to initalState.                                         *)
RECURSIVE takeLoop(_, _, _, _, _)
takeLoop(f, stop, st, initalState, substring) ==
  LET char == CharAt(st.currentPosition)
      answer == predicate(f, char)
  IN  IF char = undefined THEN trx_success(Str(substring), st, initalState)
      ELSE IF answer = "throw"
      THEN Out(Abrupt("throw", st), dispose("auto-rollback", st, initalState))
      ELSE IF answer = stop THEN trx_success(Str(substring), st, initalState)
      ELSE takeLoop(f, stop, nextChar(st).st, initalState, substring \o <<char>>)

takeWhile(f, st) == takeLoop(f, "false", st, st, <<>>)

\* the loop condition without its negation
takeUntil_as_while(f, st) == takeLoop(f, "false", st, st, <<>>)

takeUntil(f, st) == takeLoop(f, "true", st, st, <<>>)

(* ---------------------------- combinators ------------------------------ *)
(* parse(p, st) is Parser.parse of the parser p on a cursor in state st.   *)
(* A child call that ends abruptly ends the caller too; on the way out a   *)
(* throw runs the disposer of the caller's `using trx`, if it has one.     *)

RECURSIVE parse(_, _)

map(p, f, st) ==
  LET parsed == parse(p, st)
  IN  IF parsed.res.type \in Abrupts \/ parsed.res.type = "failure" THEN parsed
      ELSE IF transformThrows(f, parsed.res.data)
      THEN Out(Abrupt("throw", parsed.st), parsed.st)
      ELSE Out(success(transform(f, parsed.res.data), parsed.res.meta), parsed.st)

\* using trx = ctx.stateTransaction("auto-commit")
optional(p, st) ==
  LET parsed == parse(p, st)
  IN  IF parsed.res.type \in Abrupts THEN Out(parsed.res, dispose("auto-commit", parsed.st, st))
      ELSE IF parsed.res.type = "failure" THEN trx_success(Null, parsed.st, st)
      ELSE parsed

(* many: `const trx`, so no disposer runs.  The loop leaves when a run     *)
(* fails or the cursor is on the position `initalState` holds, the one at  *)
(* entry.  A run that succeeds without moving a cursor that is already     *)
(* away from that position is followed by an identical run: cursor states  *)
(* of one call are totally ordered by position, so an unchanged position   *)
(* is an unchanged state.                                                  *)
RECURSIVE manyLoop(_, _, _, _)
manyLoop(p, st, initalState, data) ==
  LET res == parse(p, st)
  IN  IF res.res.type \in Abrupts THEN res
      ELSE IF res.res.type = "failure" \/ ~is_dirty(res.st, initalState)
      THEN trx_success(List(data), res.st, initalState)
      ELSE IF res.st.currentPosition = st.currentPosition
      THEN Out(Abrupt("diverge", res.st), res.st)
      ELSE manyLoop(p, res.st, initalState, Append(data, res.res.data))

many(p, st) == manyLoop(p, st, st, <<>>)

(* atLeastOnce: the first run happens before the transaction is opened,    *)
(* so `initalState` is the cursor state after the first run.  The          *)
(* transaction is auto-commit: its disposer never moves the cursor.        *)
RECURSIVE atLeastOnceLoop(_, _, _, _)
atLeastOnceLoop(p, st, initalState, data) ==
  LET current_result == parse(p, st)
  IN  IF current_result.res.type \in Abrupts
      THEN Out(current_result.res, dispose("auto-commit", current_result.st, initalState))
      ELSE IF current_result.res.type = "failure" \/ ~is_dirty(current_result.st, initalState)
      THEN trx_success(List(data), current_result.st, initalState)
      ELSE IF current_result.st.currentPosition = st.currentPosition
      THEN Out(Abrupt("diverge", current_result.st), current_result.st)
      ELSE atLeastOnceLoop(p, current_result.st, initalState,
                           Append(data, current_result.res.data))

atLeastOnce(p, st) ==
  LET res == parse(p, st)
  IN  IF res.res.type \in Abrupts \/ res.res.type = "failure" THEN res
      ELSE atLeastOnceLoop(p, res.st, res.st, <<res.res.data>>)

\* using trx = ctx.stateTransaction("auto-rollback")
RECURSIVE exactlyLoop(_, _, _, _, _)
exactlyLoop(p, count, st, initalState, data) ==
  IF Len(data) = count THEN trx_success(List(data), st, initalState)
  ELSE LET res == parse(p, st)
       IN  IF res.res.type \in Abrupts \/ res.res.type = "failure"
           THEN Out(res.res, dispose("auto-rollback", res.st, initalState))
           ELSE exactlyLoop(p, count, res.st, initalState, Append(data, res.res.data))

\* the loop written as `i <= count`
exactly_one_more(p, count, st) == exactlyLoop(p, count + 1, st, st, <<>>)

exactly(p, count, st) == exactlyLoop(p, count, st, st, <<>>)

\* using trx = state.stateTransaction("auto-rollback")
RECURSIVE sequenceLoop(_, _, _, _)
sequenceLoop(parsers, st, initalState, sequence_result) ==
  IF parsers = <<>> THEN trx_success(List(sequence_result), st, initalState)
  ELSE LET res == parse(Head(parsers), st)
       IN  IF res.res.type \in Abrupts \/ res.res.type = "failure"
           THEN Out(res.res, dispose("auto-rollback", res.st, initalState))
           ELSE sequenceLoop(Tail(parsers), res.st, initalState,
                             Append(sequence_result, res.res.data))

sequence(parsers, st) == sequenceLoop(parsers, st, st, <<>>)

\* using trx = ctx.stateTransaction("auto-commit")
RECURSIVE orLoop(_, _, _)
orLoop(parsers, st, initalState) ==
  IF parsers = <<>>
  THEN trx_failure(ALL_PARSERS_FAILED, <<"All parsers failed">>, st, initalState)
  ELSE LET res == parse(Head(parsers), st)
       IN  IF res.res.type \in Abrupts THEN Out(res.res, dispose("auto-commit", res.st, initalState))
           ELSE IF res.res.type = "success" THEN res
           ELSE orLoop(Tail(parsers), res.st, initalState)

\* an or that tries its alternatives last to first
or_reversed(parsers, st) ==
  orLoop([i \in 1..Len(parsers) |-> parsers[Len(parsers) - i + 1]], st, st)

or(parsers, st) == orLoop(parsers, st, st)

(* sepBy: the transaction is opened after the first item, so `initalState` *)
(* is the cursor state behind the first item.  A round whose delimiter and *)
(* item both succeed without moving the cursor repeats forever.            *)
RECURSIVE sepByLoop(_, _, _, _, _)
sepByLoop(item_parser, delimiter_parser, st, initalState, items) ==
  LET parsed_delimiter == parse(delimiter_parser, st)
      next_item_result == parse(item_parser, parsed_delimiter.st)
  IN  IF parsed_delimiter.res.type \in Abrupts
      THEN Out(parsed_delimiter.res, dispose("auto-rollback", parsed_delimiter.st, initalState))
      ELSE IF parsed_delimiter.res.type = "failure"
      THEN trx_success(List(items), parsed_delimiter.st, initalState)
      ELSE IF next_item_result.res.type \in Abrupts \/ next_item_result.res.type = "failure"
      THEN Out(next_item_result.res, dispose("auto-rollback", next_item_result.st, initalState))
      ELSE IF next_item_result.st.currentPosition = st.currentPosition
      THEN Out(Abrupt("diverge", st), st)
      ELSE sepByLoop(item_parser, delimiter_parser, next_item_result.st, initalState,
                     Append(items, next_item_result.res.data))

\* a sepBy that passes on the failure of its first item
sepBy_strict(item_parser, delimiter_parser, st) ==
  LET first_result == parse(item_parser, st)
  IN  IF first_result.res.type \in Abrupts \/ first_result.res.type = "failure" THEN first_result
      ELSE sepByLoop(item_parser, delimiter_parser, first_result.st, first_result.st,
                     <<first_result.res.data>>)

sepBy(item_parser, delimiter_parser, st) ==
  LET first_result == parse(item_parser, st)
  IN  IF first_result.res.type \in Abrupts THEN first_result
      ELSE IF first_result.res.type = "failure"
      THEN Out(success(List(<<>>), first_result.res.meta), first_result.st)
      ELSE sepByLoop(item_parser, delimiter_parser, first_result.st, first_result.st,
                     <<first_result.res.data>>)

\* a peek that keeps what its parser consumed
peek_consuming(p, st) == parse(p, st)

\* using _ = ctx.stateTransaction(); the explicit _.rollback() precedes the return
peek(p, st) ==
  LET res == parse(p, st)
  IN  Out(res.res, rollback(res.st, st))

\* no transaction: the cursor is moved with ctx.nextChar() directly
RECURSIVE skipLoop(_, _, _, _, _)
skipLoop(baseParser, recover_until_parser, st, initalState, initialResult) ==
  IF st.currentPosition < Len(raw)
  THEN LET recover_check == parse(recover_until_parser, st)
           resumed_result == parse(baseParser, recover_check.st)
       IN  IF recover_check.res.type \in Abrupts THEN recover_check
           ELSE IF recover_check.res.type = "success"
           THEN IF resumed_result.res.type \in Abrupts \/ resumed_result.res.type = "success"
                THEN resumed_result
                ELSE Out(success(Null, meta(initalState, resumed_result.st)), resumed_result.st)
           ELSE skipLoop(baseParser, recover_until_parser, nextChar(recover_check.st).st,
                         initalState, initialResult)
  ELSE Out(initialResult, st)

skipUntilRecovery(baseParser, recover_until_parser, st) ==
  LET initialResult == parse(baseParser, st)
  IN  IF initialResult.res.type \in Abrupts \/ initialResult.res.type = "success" THEN initialResult
      ELSE skipLoop(baseParser, recover_until_parser, initialResult.st, copy(st),
                    initialResult.res)

\* the function the constructor wraps
\* const parser = parserThunk(); return parser.parse(ctx)
recursive(parserThunk, st) == parse(thunk(parserThunk), st)

_parse(p, st) ==
  CASE p.op = "utf8" -> utf8(p.arg[1], st)
    [] p.op = "literal" -> literal(p.arg, p.n = 1, st)
    [] p.op = "regex" -> regex(p.arg[1], st)
    [] p.op = "takeWhile" -> takeWhile(p.arg[1], st)
    [] p.op = "takeUntil" -> takeUntil(p.arg[1], st)
    [] p.op = "any" -> any(st)
    [] p.op = "nextChar" -> nextCharParser(st)
    [] p.op = "eof" -> eof(st)
    [] p.op = "map" -> map(p.kids[1], p.arg[1], st)
    [] p.op = "optional" -> optional(p.kids[1], st)
    [] p.op = "many" -> many(p.kids[1], st)
    [] p.op = "atLeastOnce" -> atLeastOnce(p.kids[1], st)
    [] p.op = "exactly" -> exactly(p.kids[1], p.n, st)
    [] p.op = "sequence" -> sequence(p.kids, st)
    [] p.op = "or" -> or(p.kids, st)
    [] p.op = "sepBy" -> sepBy(p.kids[1], p.kids[2], st)
    [] p.op = "peek" -> peek(p.kids[1], st)
    [] p.op = "skipUntilRecovery" -> skipUntilRecovery(p.kids[1], p.kids[2], st)
    [] p.op = "recursive" -> recursive(p.arg[1], st)

\* the guard written as `ctx.raw.length <= ctx.currentPosition`
parse_inclusive(p, st) ==
  IF Len(raw) <= st.currentPosition
  THEN Out(failure(UNEXPECTED_EOF, <<"Unexpected EOF">>, meta(st, st)), st)
  ELSE _parse(p, st)

\* Parser.parse: the guard of the constructor, then the wrapped function
parse(p, st) ==
  IF Len(raw) < st.currentPosition
  THEN Out(failure(UNEXPECTED_EOF, <<"Unexpected EOF">>, meta(st, st)), st)
  ELSE _parse(p, st)

(* ------------------------------ program -------------------------------- *)
(* A program owns one cursor over one input and one parser; it reads from  *)
(* the cursor directly and calls the parser on it, in any order.  Every    *)
(* action records the method called in op, the cursor state it was called  *)
(* in in entry and what it returned in result.                             *)

\* children handed to the combinators
Leaves ==
  {Utf8("a"), Utf8("b"), Literal(<<"a", "b">>), Literal(<<"\n", "a">>), Regex("^a+"),
   Regex("^\\s"), TakeWhile("isA"), TakeWhile("throwOnB"), Eof, AnyP, NextCharP}

Composites ==
  {SepBy(Utf8("a"), Utf8("b")), SkipUntilRecovery(Utf8("b"), Utf8("\n")),
   Optional(Utf8("a")), Sequence(<<Utf8("a"), Utf8("b")>>), Map(AnyP, "throwOnB")}

Kids == {Utf8("a"), Utf8("b"), Literal(<<"a", "b">>), Regex("^a+"), TakeWhile("isA"), Eof}
          \cup Composites

Unary(K) ==
  {Optional(k) : k \in K} \cup {Many(k) : k \in K} \cup {AtLeastOnce(k) : k \in K}
    \cup {Peek(k) : k \in K} \cup {Map(k, "wrap") : k \in K}
    \cup {Exactly(k, count) : k \in K, count \in 0..MaxCount}

Binary(K) ==
  {Sequence(<<k1, k2>>) : k1 \in K, k2 \in K} \cup {Or(<<k1, k2>>) : k1 \in K, k2 \in K}
    \cup {SepBy(k1, k2) : k1 \in K, k2 \in K}
    \cup {SkipUntilRecovery(k1, k2) : k1 \in K, k2 \in K}

Parsers == Leaves \cup Unary(Kids) \cup Binary(Kids)

NoResult == [type |-> "none", data |-> Null, code |-> "", error_message |-> <<>>,
             meta |-> meta(InitialState, InitialState)]

\* what a direct cursor read returned
Value(data, st) ==
  [type |-> "value", data |-> data, code |-> "", error_message |-> <<>>, meta |-> meta(st, st)]

\* no call on a second cursor yet
NoOther == [called |-> FALSE, entry |-> InitialState, res |-> NoResult, st |-> InitialState]

\* no transaction opened by the program
NoTrx == [open |-> FALSE, initalState |-> InitialState]

Init ==
  /\ raw \in Inputs
  /\ ctx = InitialState
  /\ parser \in Parsers
  /\ op = "new"
  /\ entry = InitialState
  /\ result = NoResult
  /\ lastIndex = 0
  /\ other = NoOther
  /\ trx = NoTrx

\* a call that never returns leaves nothing to do
Running == result.type # "diverge"

\* ctx.nextChar()
NextChar ==
  /\ Running
  /\ ctx.currentPosition < Len(raw) + MaxOver
  /\ LET read == nextChar(ctx)
     IN  /\ ctx' = read.st
         /\ result' = Value(IF read.ret = undefined THEN <<"undefined">> ELSE Str(<<read.ret>>), ctx)
  /\ op' = "nextChar"
  /\ entry' = ctx
  /\ UNCHANGED <<raw, parser, lastIndex, other, trx>>

\* ctx.nextChars(n)
NextChars ==
  /\ Running
  /\ \E n \in 0..MaxN :
       /\ ctx.currentPosition + n <= Len(raw) + MaxOver
       /\ LET read == nextChars(ctx, n)
          IN  /\ ctx' = read.st
              /\ result' = Value(Str(read.ret), ctx)
  /\ op' = "nextChars"
  /\ entry' = ctx
  /\ UNCHANGED <<raw, parser, lastIndex, other, trx>>

(* What one call of parser.parse on a cursor in state st does to the       *)
(* lastIndex of the parser's RegExp: match runs once, unless the guard of  *)
(* parse answered.                                                         *)
lastIndexBehind(st) ==
  IF parser.op = "regex" /\ st.currentPosition <= Len(raw)
  THEN lastIndexAfter(parser.arg[1], peekRemainder(st))
  ELSE lastIndex

\* parser.parse(ctx)
Parse ==
  /\ Running
  /\ LET out == parse(parser, ctx)
     IN  /\ ctx' = out.st
         /\ result' = out.res
  /\ op' = "parse"
  /\ entry' = ctx
  /\ lastIndex' = lastIndexBehind(ctx)
  /\ UNCHANGED <<raw, parser, other, trx>>

(* parser.parse(new ParsingState(ctx.raw, ctx.currentPosition,             *)
(* ctx.currentLine, ctx.currentColumn)): the same Parser instance on a     *)
(* second cursor that is in the state of the first.                        *)
ParseOther ==
  /\ Running
  /\ LET out == parse(parser, ctx)
     IN  other' = [called |-> TRUE, entry |-> ctx, res |-> out.res, st |-> out.st]
  /\ lastIndex' = lastIndexBehind(ctx)
  /\ UNCHANGED <<raw, ctx, parser, op, entry, result, trx>>

Next == NextChar \/ Parse

Spec == Init /\ [][Next]_vars

(* The cursor on its own: every direct read, and the leaf parsers, over    *)
(* inputs that also hold an upper-case letter.                             *)
CharsWide == Chars \cup {"A"}

InputsWide == UNION {[1..n -> CharsWide] : n \in 0..MaxLen}

LeafParsers ==
  Leaves \cup
    {Utf8("\n"), Literal(<<>>), LiteralCI(<<"A", "b">>), LiteralCI(<<"a", "b">>),
     Regex("^a*"), Regex("^a|b"), Regex("^a/m"),
     TakeWhile("isNewline"), TakeUntil("isA"), TakeUntil("isNewline")}

InitCursor ==
  /\ raw \in InputsWide
  /\ ctx = InitialState
  /\ parser \in LeafParsers
  /\ op = "new"
  /\ entry = InitialState
  /\ result = NoResult
  /\ lastIndex = 0
  /\ other = NoOther
  /\ trx = NoTrx

NextCursor == NextChar \/ NextChars \/ Parse

SpecCursor == InitCursor /\ [][NextCursor]_vars

(* One Parser instance used on two cursors: the leaf parsers, a RegExp     *)
(* with the y flag among them, and the composite children.                 *)
ReusedParsers == LeafParsers \cup {Regex("^a/y")} \cup Composites

InitReuse ==
  /\ raw \in Inputs
  /\ ctx = InitialState
  /\ parser \in ReusedParsers
  /\ op = "new"
  /\ entry = InitialState
  /\ result = NoResult
  /\ lastIndex = 0
  /\ other = NoOther
  /\ trx = NoTrx

NextReuse == NextChar \/ ParseOther \/ Parse

SpecReuse == InitReuse /\ [][NextReuse]_vars

(* One transaction held by the program: it is opened once, then the       *)
(* program reads from the cursor and calls is_dirty, commit and rollback   *)
(* in any order.                                                           *)
Bool(b) == <<"bool", IF b THEN "true" ELSE "false">>

\* ctx.stateTransaction()
StateTransaction ==
  /\ ~trx.open
  /\ trx' = [open |-> TRUE, initalState |-> copy(ctx)]
  /\ op' = "stateTransaction"
  /\ entry' = ctx
  /\ result' = Value(Null, ctx)
  /\ UNCHANGED <<raw, ctx, parser, lastIndex, other>>

\* trx.is_dirty()
IsDirty ==
  /\ trx.open
  /\ op' = "is_dirty"
  /\ entry' = ctx
  /\ result' = Value(Bool(is_dirty(ctx, trx.initalState)), ctx)
  /\ UNCHANGED <<raw, ctx, parser, lastIndex, other, trx>>

\* trx.commit()
Commit ==
  /\ trx.open
  /\ trx' = [trx EXCEPT !.initalState = trx_commit(ctx, trx.initalState)]
  /\ op' = "commit"
  /\ entry' = ctx
  /\ result' = Value(<<"undefined">>, ctx)
  /\ UNCHANGED <<raw, ctx, parser, lastIndex, other>>

\* trx.rollback()
Rollback ==
  /\ trx.open
  /\ ctx' = trx_rollback(ctx, trx.initalState)
  /\ op' = "rollback"
  /\ entry' = ctx
  /\ result' = Value(<<"undefined">>, ctx)
  /\ UNCHANGED <<raw, parser, lastIndex, other, trx>>

InitTrx ==
  /\ raw \in Inputs
  /\ ctx = InitialState
  /\ parser = AnyP
  /\ op = "new"
  /\ entry = InitialState
  /\ result = NoResult
  /\ lastIndex = 0
  /\ other = NoOther
  /\ trx = NoTrx

NextTrx == NextChar \/ NextChars \/ StateTransaction \/ IsDirty \/ Commit \/ Rollback

SpecTrx == InitTrx /\ [][NextTrx]_vars

(* The number parsers and the arithmetic grammar, on every short text     *)
(* over digits, operators and the decimal point and on the paren-free      *)
(* texts of the tests.                                                     *)
MaxExpr == 3

MathChars == {"0", "1", "2", "3", "4", "+", "-", "*", "/", "."}

Text2_3_4 == <<"2", "+", "3", "*", "4">>
TextLeft == <<"1", "0", "-", "2", "+", "3">>
TextDivide == <<"1", "0", "/", "2", "*", "3">>

MathInputs ==
  UNION {[1..n -> MathChars] : n \in 0..MaxExpr}
    \cup {Text2_3_4, TextLeft, TextDivide}

MathParsers == {math_expression, unsinged_integer, integer, number}

InitMath ==
  /\ raw \in MathInputs
  /\ ctx = InitialState
  /\ parser \in MathParsers
  /\ op = "new"
  /\ entry = InitialState
  /\ result = NoResult
  /\ lastIndex = 0
  /\ other = NoOther
  /\ trx = NoTrx

NextMath == NextChar \/ Parse

SpecMath == InitMath /\ [][NextMath]_vars

TypeOK ==
  /\ raw \in InputsWide \cup MathInputs
  /\ parser \in Parsers \cup ReusedParsers \cup MathParsers
  /\ result.type \in {"none", "value", "success", "failure", "throw", "diverge"}

(* ------------------------------ claims --------------------------------- *)

\* the last operation was parser.parse(ctx), started on a position inside the input
Called == op = "parse"

Inside == entry.currentPosition <= Len(raw)

Returned == result.type \in {"success", "failure"}

\* the state of a cursor that has consumed raw[0..i)
StateAt(i) == nextChars(InitialState, i).st

\* runs of the parsers ps one after the other, each started where the one
\* before it left the cursor, up to and including the first with the outcome `until`
RECURSIVE Runs(_, _, _)
Runs(ps, st, until) ==
  IF ps = <<>> THEN <<>>
  ELSE LET r == parse(Head(ps), st)
       IN  IF r.res.type = until \/ IsAbrupt(r.res) THEN <<r>>
           ELSE <<r>> \o Runs(Tail(ps), r.st, until)

(* C1: sequence is all-or-nothing.  When a child fails, sequence returns   *)
(* that child's failure and position, line and column are those at entry,  *)
(* although the children before it succeeded; when every child succeeds,   *)
(* the data is the tuple of the children's data in argument order and the  *)
(* cursor is where the last child left it.                                 *)
C1_SequenceAllOrNothing ==
  (Called /\ Inside /\ parser.op = "sequence") =>
    LET runs == Runs(parser.kids, entry, "failure")
        last == runs[Len(runs)]
    IN  /\ last.res.type = "failure" => (result = last.res /\ ctx = entry)
        /\ last.res.type = "success" =>
             /\ result.type = "success"
             /\ result.data = List([i \in 1..Len(runs) |-> runs[i].res.data])
             /\ ctx = last.st

\* a sequence whose first child consumed input and whose second child failed
C1_Witness ==
  /\ Called /\ parser.op = "sequence" /\ result.type = "failure"
  /\ parse(parser.kids[1], entry).res.type = "success"
  /\ parse(parser.kids[1], entry).st.currentPosition > entry.currentPosition
  /\ ctx = entry

(* C2: many(p) and atLeastOnce(p) return for every child p that itself     *)
(* returns from every position of the input.                               *)
ChildTerminates(p) ==
  \A i \in 0..Len(raw) : parse(p, StateAt(i)).res.type # "diverge"

C2_RepetitionTerminates ==
  (Called /\ parser.op \in {"many", "atLeastOnce"} /\ ChildTerminates(parser.kids[1])) =>
    result.type # "diverge"

(* C3: a Failure of literal, utf8 or regex leaves position, line and       *)
(* column as they were before the call.                                    *)
C3_LeafFailureRestores ==
  (Called /\ parser.op \in {"literal", "utf8", "regex"} /\ result.type = "failure") =>
    ctx = entry

\* a literal that read across a line break before it failed, away from position 0
C3_Witness ==
  /\ Called /\ parser.op = "literal" /\ result.type = "failure"
  /\ entry.currentPosition > 0
  /\ result.meta.endLine > result.meta.startLine
  /\ ctx = entry

(* C4: or returns the result of the first alternative, in argument order,  *)
(* that succeeds, with the cursor where that alternative left it; when     *)
(* every alternative fails it returns ALL_PARSERS_FAILED with the message  *)
(* "All parsers failed" and the cursor is on the entry position.           *)
C4_OrFirstSuccess ==
  (Called /\ Inside /\ parser.op = "or") =>
    LET runs == Runs(parser.kids, entry, "success")
        last == runs[Len(runs)]
    IN  /\ last.res.type = "success" => (result = last.res /\ ctx = last.st)
        /\ last.res.type = "failure" =>
             /\ result.type = "failure"
             /\ result.code = ALL_PARSERS_FAILED
             /\ result.error_message = <<"All parsers failed">>
             /\ ctx = entry
        /\ (parser = Or(<<Utf8("a"), Literal(<<"a", "b">>)>>) /\ raw = <<"a", "b">>
              /\ entry = InitialState) =>
             (result.data = Str(<<"a">>) /\ ctx.currentPosition = 1)

\* every alternative failed and the first one had left the cursor moved
C4_Witness ==
  /\ Called /\ parser.op = "or" /\ result.code = ALL_PARSERS_FAILED
  /\ parse(parser.kids[1], entry).st # entry
  /\ ctx = entry

(* C5: when a user callback throws inside takeWhile, sequence, exactly or  *)
(* many, the cursor is back on the entry position of that combinator.      *)
C5_ThrowRestoresEntry ==
  (Called /\ parser.op \in {"takeWhile", "sequence", "exactly", "many"}
     /\ result.type = "throw") => ctx = entry

(* C6: optional(p) yields Success(null) with the cursor on its entry       *)
(* position when p fails, and p's own result when p succeeds.              *)
C6_OptionalNeverPropagates ==
  (Called /\ Inside /\ parser.op = "optional") =>
    LET parsed == parse(parser.kids[1], entry)
    IN  /\ parsed.res.type = "failure" =>
             (result.type = "success" /\ result.data = Null /\ ctx = entry)
        /\ parsed.res.type = "success" => result = parsed.res

(* C7: peek(p) returns p's own result and leaves position, line and        *)
(* column as they were before the call.                                    *)
C7_PeekNeverMoves ==
  (Called /\ parser.op = "peek" /\ Returned) =>
    (ctx = entry /\ result = parse(parser.kids[1], entry).res)

\* the peeked parser succeeded and had consumed input
C7_Witness ==
  /\ Called /\ parser.op = "peek" /\ result.type = "success"
  /\ result.meta.end > result.meta.start
  /\ entry.currentPosition > 0
  /\ ctx = entry

(* C8: sepBy succeeds with the empty sequence when the first item fails;   *)
(* otherwise it collects the item values in order, succeeds with the items *)
(* so far when a delimiter attempt fails, and returns the item's failure   *)
(* when a delimiter succeeds but the item after it fails.                  *)
RECURSIVE SepByRounds(_, _, _, _)
SepByRounds(item, delimiter, st, items) ==
  LET d == parse(delimiter, st)
      i == parse(item, d.st)
      none == [kind |-> "none", items |-> items, res |-> d.res]
  IN  IF IsAbrupt(d.res) THEN none
      ELSE IF d.res.type = "failure" THEN [kind |-> "items", items |-> items, res |-> d.res]
      ELSE IF IsAbrupt(i.res) THEN none
      ELSE IF i.res.type = "failure" THEN [kind |-> "failure", items |-> items, res |-> i.res]
      ELSE IF i.st.currentPosition = st.currentPosition THEN none
      ELSE SepByRounds(item, delimiter, i.st, Append(items, i.res.data))

C8_SepBy ==
  (Called /\ Inside /\ parser.op = "sepBy" /\ Returned) =>
    LET item == parser.kids[1]
        delimiter == parser.kids[2]
        first == parse(item, entry)
        rounds == SepByRounds(item, delimiter, first.st, <<first.res.data>>)
    IN  /\ first.res.type = "failure" =>
             (result.type = "success" /\ result.data = List(<<>>))
        /\ (first.res.type = "success" /\ rounds.kind = "items") =>
             (result.type = "success" /\ result.data = List(rounds.items))
        /\ (first.res.type = "success" /\ rounds.kind = "failure") => result = rounds.res
        /\ (parser = SepBy(Utf8("a"), Utf8("b")) /\ entry = InitialState) =>
             /\ raw = <<"a", "b", "a">> => result.data = List(<<Str(<<"a">>), Str(<<"a">>)>>)
             /\ raw = <<>> => (result.type = "success" /\ result.data = List(<<>>))
             /\ raw = <<"a", "b">> => result.type = "failure"

\* a delimiter matched after an item and the item behind it did not
C8_Witness ==
  /\ Called /\ parser.op = "sepBy" /\ result.type = "failure"
  /\ parse(parser.kids[1], entry).res.type = "success"
  /\ LET first == parse(parser.kids[1], entry)
         delimiter == parse(parser.kids[2], first.st)
     IN  /\ delimiter.res.type = "success"
         /\ delimiter.st.currentPosition > first.st.currentPosition

(* C9: skipUntilRecovery returns base's result when base succeeds.  When   *)
(* base fails, recovery is tried at the entry position and the positions   *)
(* after it, one character apart; at the first where it succeeds base is   *)
(* retried from behind the recovery match: its success is returned, its    *)
(* failure gives Success(null) whose span starts at the entry position.    *)
(* When recovery succeeds nowhere before the end of the input, the first   *)
(* failure of base is returned.                                            *)
NoAbruptRun(p) ==
  \A i \in 0..Len(raw) : ~IsAbrupt(parse(p, StateAt(i)).res)

RecoveryPositions(recover, from) ==
  {i \in from..(Len(raw) - 1) : parse(recover, StateAt(i)).res.type = "success"}

Min(S) == CHOOSE i \in S : \A j \in S : i <= j

C9_SkipUntilRecovery ==
  (Called /\ Inside /\ parser.op = "skipUntilRecovery" /\ Returned
     /\ NoAbruptRun(parser.kids[1]) /\ NoAbruptRun(parser.kids[2])) =>
    LET base == parser.kids[1]
        recover == parser.kids[2]
        initial == parse(base, entry)
        found == RecoveryPositions(recover, entry.currentPosition)
        resumed == parse(base, parse(recover, StateAt(Min(found))).st)
    IN  /\ initial.res.type = "success" => result = initial.res
        /\ (initial.res.type = "failure" /\ found = {}) => result = initial.res
        /\ (initial.res.type = "failure" /\ found # {}) =>
             /\ resumed.res.type = "success" => result = resumed.res
             /\ resumed.res.type = "failure" =>
                  /\ result.type = "success" /\ result.data = Null
                  /\ result.meta.start = entry.currentPosition
                  /\ result.meta.startLine = entry.currentLine
                  /\ result.meta.startColumn = entry.currentColumn

(* C10: the cursor position stays within 0..length(raw).                   *)
C10_PositionInBounds ==
  0 <= ctx.currentPosition /\ ctx.currentPosition <= Len(raw)

\* raw[0..i), as String.prototype.slice clips it
Prefix(i) == SubSeq(raw, 1, IF i < Len(raw) THEN i ELSE Len(raw))

NewlinesIn(s) == Cardinality({k \in 1..Len(s) : s[k] = "\n"})

\* the characters of s behind its last line break
AfterLastNewline(s) ==
  Len(s) - (IF NewlinesIn(s) = 0 THEN 0
            ELSE CHOOSE k \in 1..Len(s) :
                   s[k] = "\n" /\ \A j \in (k + 1)..Len(s) : s[j] # "\n")

(* C11: the line is 1 plus the number of line breaks in raw[0..position),  *)
(* the column 1 plus the number of characters behind the last of them.     *)
C11_LineColumnConsistent ==
  /\ ctx.currentLine = 1 + NewlinesIn(Prefix(ctx.currentPosition))
  /\ ctx.currentColumn = 1 + AfterLastNewline(Prefix(ctx.currentPosition))

(* C12: nextChars(n) returns the next n characters and advances by n; with *)
(* fewer than n characters left it returns exactly the unconsumed rest.    *)
C12_NextCharsRemainder ==
  op = "nextChars" =>
    LET n == ctx.currentPosition - entry.currentPosition
        last == IF entry.currentPosition + n < Len(raw)
                THEN entry.currentPosition + n ELSE Len(raw)
    IN  result.data = Str(SubSeq(raw, entry.currentPosition + 1, last))

(* The runs a repetition of p collects from st on: each one succeeds and   *)
(* advances the cursor, and the next one starts where it stopped.          *)
RECURSIVE Collected(_, _)
Collected(p, st) ==
  LET out == parse(p, st)
  IN  IF out.res.type = "success" /\ out.st.currentPosition > st.currentPosition
      THEN <<out>> \o Collected(p, out.st)
      ELSE <<>>

DataOf(outs) == [k \in 1..Len(outs) |-> outs[k].res.data]

\* where the cursor stands behind the last of the runs that started at st
After(outs, st) == IF outs = <<>> THEN st ELSE outs[Len(outs)].st

(* C13: many(p), started inside the input, never returns a Failure; its    *)
(* data are the values of the consecutive successful runs of p, in order   *)
(* (none when the first run fails), and the cursor is left immediately     *)
(* behind the last collected match.                                        *)
C13_Many ==
  (Called /\ Inside /\ parser.op = "many" /\ Returned) =>
    LET collected == Collected(parser.kids[1], entry)
    IN  /\ result.type = "success"
        /\ result.data = List(DataOf(collected))
        /\ parse(parser.kids[1], entry).res.type = "failure" => result.data = List(<<>>)
        /\ ctx = After(collected, entry)

(* C14: atLeastOnce(p) fails, with the failure of p and the cursor on the  *)
(* entry position, exactly when the first run of p fails; otherwise its    *)
(* data are the value of the first run followed by the values of the       *)
(* subsequent successful runs, in order.                                   *)
C14_AtLeastOnce ==
  (Called /\ Inside /\ parser.op = "atLeastOnce" /\ Returned) =>
    LET first == parse(parser.kids[1], entry)
        collected == Collected(parser.kids[1], first.st)
    IN  /\ result.type = "failure" <=> first.res.type = "failure"
        /\ result.type = "failure" => (result = first.res /\ ctx = entry)
        /\ result.type = "success" =>
             result.data = List(<<first.res.data>> \o DataOf(collected))

(* C15: exactly(p, n) succeeds with the n values, in order, when p         *)
(* succeeds n times in a row from the entry position; otherwise it fails   *)
(* and the cursor is back on the entry position.  exactly(p, 0) succeeds   *)
(* with the empty sequence and does not move the cursor.                   *)
C15_Exactly ==
  (Called /\ Inside /\ parser.op = "exactly" /\ Returned) =>
    LET runs == Runs([k \in 1..parser.n |-> parser.kids[1]], entry, "failure")
        all == runs = <<>> \/ runs[Len(runs)].res.type = "success"
    IN  /\ all => /\ result.type = "success"
                  /\ result.data = List(DataOf(runs))
                  /\ Len(runs) = parser.n
                  /\ ctx = After(runs, entry)
        /\ ~all => (result.type = "failure" /\ ctx = entry)
        /\ parser.n = 0 => (result.data = List(<<>>) /\ ctx = entry)

\* the first run consumed input, the second failed, and nothing stayed consumed
C15_Witness ==
  /\ Called /\ parser.op = "exactly" /\ parser.n = 2 /\ result.type = "failure"
  /\ parse(parser.kids[1], entry).res.type = "success"
  /\ parse(parser.kids[1], entry).st.currentPosition > entry.currentPosition
  /\ ctx = entry

(* C16: utf8(c) succeeds exactly when the character at the cursor is c,    *)
(* with data c and the cursor one character further; when it fails the     *)
(* code is UNEXPECTED_EOF at end of input and EXPECTED_LITERAL elsewhere.  *)
C16_Utf8 ==
  (Called /\ parser.op = "utf8") =>
    LET c == parser.arg[1]
        atEnd == entry.currentPosition >= Len(raw)
    IN  /\ Returned
        /\ result.type = "success" <=> (~atEnd /\ raw[entry.currentPosition + 1] = c)
        /\ result.type = "success" =>
             /\ result.data = Str(<<c>>)
             /\ ctx = StateAt(entry.currentPosition + 1)
        /\ result.type = "failure" =>
             result.code = (IF atEnd THEN UNEXPECTED_EOF ELSE EXPECTED_LITERAL)

\* utf8 ran out of input behind characters that had been read
C16_Witness ==
  /\ Called /\ parser.op = "utf8" /\ result.code = UNEXPECTED_EOF
  /\ entry.currentPosition = Len(raw) /\ Len(raw) > 0
  /\ ctx = entry

(* C17: literal(text) succeeds exactly when the next length(text)          *)
(* characters equal text, both lower-cased first when case_insensitive is  *)
(* set; the data is then the expected text itself and the cursor has       *)
(* advanced by length(text).  Otherwise, also with fewer characters left,  *)
(* it fails with EXPECTED_LITERAL.                                         *)
C17_Literal ==
  (Called /\ Inside /\ parser.op = "literal") =>
    LET text == parser.arg
        case_insensitive == parser.n = 1
        last == entry.currentPosition + Len(text)
        upcoming == SubSeq(raw, entry.currentPosition + 1, last)
        equal == /\ last <= Len(raw)
                 /\ IF case_insensitive THEN lower(upcoming) = lower(text)
                    ELSE upcoming = text
    IN  /\ Returned
        /\ result.type = "success" <=> equal
        /\ result.type = "success" => (result.data = Str(text) /\ ctx = StateAt(last))
        /\ result.type = "failure" => result.code = EXPECTED_LITERAL

\* a case-insensitive literal matched input that is spelled differently
C17_Witness ==
  /\ Called /\ parser.op = "literal" /\ parser.n = 1 /\ result.type = "success"
  /\ SubSeq(raw, entry.currentPosition + 1, ctx.currentPosition) # parser.arg
  /\ result.data = Str(parser.arg)
  /\ ctx.currentPosition = entry.currentPosition + Len(parser.arg)

(* C18: regex(pattern) succeeds only when the pattern matches text that    *)
(* begins at the cursor; the data is then exactly the matched text and the *)
(* cursor has advanced by its length.  Without a match it fails with       *)
(* EXPECTED_REGEX.                                                         *)
C18_Regex ==
  (Called /\ Inside /\ parser.op = "regex") =>
    LET rest == peekRemainder(entry)
        found == matchAt(parser.arg[1], rest)
    IN  /\ Returned
        /\ result.type = "success" =>
             /\ found.length >= 0 /\ found.index = 0
             /\ result.data = Str(SubSeq(rest, found.index + 1, found.index + found.length))
             /\ ctx.currentPosition = entry.currentPosition + found.length
        /\ found.length < 0 => (result.type = "failure" /\ result.code = EXPECTED_REGEX)

\* how many leading characters of s get the answer `want` from the predicate f
RECURSIVE PrefixLen(_, _, _)
PrefixLen(f, want, s) ==
  IF s # <<>> /\ predicate(f, Head(s)) = want THEN 1 + PrefixLen(f, want, Tail(s)) ELSE 0

(* C19: takeWhile(pred) and takeUntil(pred) never fail.  They succeed with *)
(* the longest prefix of the remaining input whose characters all satisfy  *)
(* pred (takeWhile) or all fail it (takeUntil), the cursor is directly     *)
(* behind that prefix, and the span runs from the entry position to there. *)
C19_Take ==
  (Called /\ Inside /\ parser.op \in {"takeWhile", "takeUntil"} /\ Returned) =>
    LET rest == peekRemainder(entry)
        want == IF parser.op = "takeWhile" THEN "true" ELSE "false"
        k == PrefixLen(parser.arg[1], want, rest)
    IN  /\ result.type = "success"
        /\ result.data = Str(SubSeq(rest, 1, k))
        /\ ctx = StateAt(entry.currentPosition + k)
        /\ result.meta = meta(entry, ctx)
        /\ result.meta.start = entry.currentPosition
        /\ result.meta.end = entry.currentPosition + k

\* takeUntil, started inside the input, stopped in front of a stop character
C19_Witness ==
  /\ Called /\ parser.op = "takeUntil" /\ result.type = "success"
  /\ entry.currentPosition > 0
  /\ ctx.currentPosition > entry.currentPosition
  /\ ctx.currentPosition < Len(raw)
  /\ result.meta.start = entry.currentPosition /\ result.meta.end = ctx.currentPosition

(* C20: Parser.parse on a cursor whose position is greater than the input  *)
(* length returns a Failure with code UNEXPECTED_EOF, does not run the     *)
(* wrapped function and does not change the cursor; on a position equal to *)
(* the input length the wrapped function runs.                             *)
C20_EntryGuard ==
  Called =>
    /\ entry.currentPosition > Len(raw) =>
         /\ result = failure(UNEXPECTED_EOF, <<"Unexpected EOF">>, meta(entry, entry))
         /\ ctx = entry
    /\ entry.currentPosition = Len(raw) => Out(result, ctx) = _parse(parser, entry)

\* beyond the input the guard answered for a parser whose function would succeed
C20_Witness ==
  /\ Called /\ entry.currentPosition > Len(raw)
  /\ _parse(parser, entry).res.type = "success"
  /\ result.type = "failure" /\ result.code = UNEXPECTED_EOF
  /\ ctx = entry

(* C21: two parse calls of one Parser started from equal cursor states     *)
(* return identical Results and leave the cursors in identical states.     *)
C21_Deterministic ==
  (Called /\ other.called /\ other.entry = entry) =>
    (other.res = result /\ other.st = ctx)

\* the tokens of a text: every run of digits is one number
RECURSIVE Tokens(_)
Tokens(s) ==
  IF s = <<>> THEN <<>>
  ELSE IF Head(s) \in Digits
  THEN LET k == Run(s, Digits)
       IN  <<Num(DigitsValue(SubSeq(s, 1, k)), 1)>> \o Tokens(SubSeq(s, k + 1, Len(s)))
  ELSE <<<<"op", Head(s)>>>> \o Tokens(Tail(s))

\* integer literals with one of + - * / between neighbours
WellFormed(s) ==
  LET toks == Tokens(s)
  IN  /\ Len(toks) % 2 = 1
      /\ \A k \in 1..Len(toks) :
           IF k % 2 = 1 THEN IsNum(toks[k]) ELSE toks[k][2] \in {"+", "-", "*", "/"}

\* total is the sum of the finished terms, pending the sign of the running term t
RECURSIVE Precedence(_, _, _, _)
Precedence(rest, total, pending, t) ==
  IF rest = <<>> THEN Arith(pending, total, t)
  ELSE LET more == SubSeq(rest, 3, Len(rest))
       IN  IF rest[1][2] \in {"*", "/"}
           THEN Precedence(more, total, pending, Arith(rest[1][2], t, rest[2]))
           ELSE Precedence(more, Arith(pending, total, t), rest[1][2], rest[2])

\* the value of a well-formed text without parentheses
ValueOf(s) == LET toks == Tokens(s) IN Precedence(Tail(toks), Num(0, 1), "+", toks[1])

(* C22: the arithmetic grammar parses every well-formed expression over    *)
(* integer literals to its end and yields its value, * and / binding       *)
(* tighter than + and -, left to right within one level.                   *)
C22_Arithmetic ==
  (Called /\ parser = math_expression /\ entry = InitialState /\ WellFormed(raw)) =>
    /\ result.type = "success"
    /\ result.data = ValueOf(raw)
    /\ ctx.currentPosition = Len(raw)

\* the digits at the cursor, behind an optional sign if signed
DigitRun(s, signed) ==
  LET body == IF signed /\ s # <<>> /\ Head(s) \in {"+", "-"} THEN Tail(s) ELSE s
  IN  SubSeq(body, 1, Run(body, Digits))

(* C27: unsinged_integer accepts every non-empty run of digits at the      *)
(* cursor, consumes the whole run and yields its value; integer does so    *)
(* behind an optional + or - and yields the signed value; number succeeds  *)
(* with that value on every text that is a run of digits.                  *)
C27_Integers ==
  LET rest == peekRemainder(entry)
      signed == parser \in {integer, number}
      run == DigitRun(rest, signed)
      minus == signed /\ rest # <<>> /\ Head(rest) = "-"
      length == Len(run) + (IF signed /\ rest # <<>> /\ Head(rest) \in {"+", "-"} THEN 1 ELSE 0)
      value == Num(IF minus THEN -DigitsValue(run) ELSE DigitsValue(run), 1)
  IN  (/\ Called /\ run # <<>>
       /\ \/ parser \in {unsinged_integer, integer}
          \/ parser = number /\ length = Len(rest)) =>
        /\ result.type = "success"
        /\ result.data = value
        /\ ctx.currentPosition = entry.currentPosition + length

(* C23: for one transaction under any sequence of cursor reads, commits    *)
(* and rollbacks: rollback puts position, line and column back to the      *)
(* origin and leaves the origin; commit makes the cursor state the origin  *)
(* and leaves the cursor; is_dirty is true exactly when the position       *)
(* differs from the origin's; commit and rollback on a transaction that is *)
(* not dirty change neither the cursor nor the origin.                     *)
C23_Transaction ==
  [][/\ op' = "rollback" => ctx' = trx.initalState /\ trx' = trx
     /\ op' = "commit" => ctx' = ctx /\ trx'.initalState = ctx
     /\ op' = "is_dirty" =>
          /\ result'.data = Bool(ctx.currentPosition # trx.initalState.currentPosition)
          /\ ctx' = ctx /\ trx' = trx
     /\ (op' \in {"commit", "rollback"}
           /\ ctx.currentPosition = trx.initalState.currentPosition) =>
          ctx' = ctx /\ trx' = trx]_vars

\* a rollback of a moved cursor to an origin that a commit had moved over a newline
C23_Witness ==
  /\ trx.open /\ op = "rollback"
  /\ trx.initalState.currentLine > 1
  /\ entry.currentPosition > trx.initalState.currentPosition
  /\ ctx = trx.initalState

(* C24: inside or, every alternative is started with the cursor at the     *)
(* position where or was entered, however far a failing alternative before *)
(* it had advanced; composite children are no exception.                   *)
C24_OrAlternatives ==
  (Called /\ Inside /\ parser.op = "or") =>
    LET tried == Runs(parser.kids, entry, "success")
    IN  \A k \in 1..Len(tried) :
          k > 1 => tried[k - 1].st.currentPosition = entry.currentPosition

(* C25: when sepBy returns a Failure, position, line and column of the     *)
(* cursor are those at the moment sepBy was entered.                       *)
C25_SepByFailure ==
  (Called /\ Inside /\ parser.op = "sepBy" /\ result.type = "failure") => ctx = entry

(* C26: when skipUntilRecovery returns a Failure, position, line and       *)
(* column of the cursor are those at the moment it was entered.            *)
C26_SkipFailure ==
  (Called /\ Inside /\ parser.op = "skipUntilRecovery" /\ result.type = "failure") =>
    ctx = entry

(* C28: every Result of a parser run on a cursor inside the input carries  *)
(* a span with 0 <= meta.start <= meta.end <= length of the input.         *)
C28_SpanInBounds ==
  (Called /\ Inside /\ Returned) =>
    /\ 0 <= result.meta.start
    /\ result.meta.start <= result.meta.end
    /\ result.meta.end <= Len(raw)

(* C29: the span of a Success of atLeastOnce, and of sepBy with at least   *)
(* one item, starts at the entry position, line and column and ends at the *)
(* cursor position after the call.                                         *)
C29_SpanFromEntry ==
  (/\ Called /\ Inside /\ result.type = "success"
   /\ \/ parser.op = "atLeastOnce"
      \/ parser.op = "sepBy" /\ result.data # List(<<>>)) =>
    /\ result.meta.start = entry.currentPosition
    /\ result.meta.startLine = entry.currentLine
    /\ result.meta.startColumn = entry.currentColumn
    /\ result.meta.end = ctx.currentPosition

\* peek is among the combinators p was built with
RECURSIVE HasPeek(_)
HasPeek(p) == p.op = "peek" \/ \E k \in 1..Len(p.kids) : HasPeek(p.kids[k])

(* C30: for every Success of a parser built without peek, meta.end is the  *)
(* cursor position after the call; a sepBy that succeeds with no item and  *)
(* an optional that yields null report the empty span at the entry         *)
(* position.                                                               *)
C30_SpanEnd ==
  (Called /\ Inside /\ result.type = "success" /\ ~HasPeek(parser)) =>
    /\ result.meta.end = ctx.currentPosition
    /\ (\/ parser.op = "sepBy" /\ result.data = List(<<>>)
        \/ parser.op = "optional" /\ result.data = Null) =>
         /\ result.meta.start = entry.currentPosition
         /\ result.meta.end = entry.currentPosition

====
